---- MODULE Spec2Model ----
(***************************************************************************)
(* Model of the interactive generation loop of codegeex4-candle,          *)
(* src/main.rs: TextGeneration::new and TextGeneration::run.              *)
(*                                                                         *)
(* Logits are fixed-point numbers: the integer v stands for v/30, so that  *)
(* dividing or multiplying by the penalty 1.2 = 6/5 is exact on the values *)
(* the model returns here (60 stands for 2.0, 50 for 2.0/1.2).             *)
(***************************************************************************)
EXTENDS Integers, Sequences, FiniteSets, TLC

VARIABLES
    pc,               \* position of run(): "read", "loop", "sample", "report", "done", "panicked"
    panic_msg,        \* message of the panic that ended the process, or NoPanic
    sample_len,       \* argument of run()
    repeat_penalty,   \* self.repeat_penalty, a fraction [num, den]
    repeat_last_n,    \* self.repeat_last_n
    vocab,            \* the tokenizer's vocabulary: token string -> id
    logits_processor, \* number of draws taken from the seeded random stream
    kv_cache,         \* the tokens the model holds in its key-value cache
    reset_calls,      \* number of calls of model.reset_kv_cache()
    lines_read,       \* number of lines taken from stdin
    line,             \* the line being processed
    prompt_ids,       \* tokens.get_ids() of the encoding of line
    tokens,           \* the running token sequence
    generated_tokens, \* tokens sampled for the current line
    index,            \* the counter of the decoding loop
    input,            \* the slice last handed to model.forward
    logits,           \* the logits last returned by model.forward
    sampler_logits,   \* the logits last handed to logits_processor.sample
    result,           \* decoded fragments of the current line
    stdout,           \* what was printed for the current line: <<count, fragments>>
    forward_calls,    \* calls of model.forward for the current line
    submitted         \* concatenation of the slices handed to model.forward for the current line

vars == <<pc, panic_msg, sample_len, repeat_penalty, repeat_last_n, vocab,
          logits_processor, kv_cache, reset_calls, lines_read, line,
          prompt_ids, tokens, generated_tokens, index, input, logits,
          sampler_logits, result, stdout, forward_calls, submitted>>

(***************************************************************************)
(* Bounds and input sets                                                   *)
(***************************************************************************)
MaxPrompts == 2
MaxSampleLen == 2
MaxRepeatLastN == 2

NoPanic == "none"
NoLine == <<"<no line>">>
NoLogits == <<>>
EosName == "<|endoftext|>"
EmptyPromptMsg == "Empty prompts are not supported in the chatglm model."

\* Tokenizer vocabularies: one with the end marker, one without.
Vocabularies ==
    { ("a" :> 0 @@ "b" :> 1 @@ EosName :> 2),
      ("a" :> 0 @@ "b" :> 1) }

\* Lines of stdin, as sequences of token strings ("?" is in no vocabulary).
Lines ==
    { <<>>, <<"a">>, <<"b", "a">>, <<"a", EosName>>, <<"?">> }

\* 1.0 and 1.2
RepeatPenalties == { [num |-> 1, den |-> 1], [num |-> 6, den |-> 5] }

\* Logits vectors the model may return, one score per vocabulary id.
LogitChoices ==
    { (0 :> 60 @@ 1 :> -30 @@ 2 :> 30),
      (0 :> -30 @@ 1 :> 60 @@ 2 :> 0) }

(***************************************************************************)
(* Pure helpers                                                            *)
(***************************************************************************)
saturating_sub(a, b) == IF a >= b THEN a - b ELSE 0

\* &s[from..], with a 0-based start as in the source
SliceFrom(s, from) == SubSeq(s, from + 1, Len(s))

\* tokenizer.encode(line, true): every token string is looked up in the
\* vocabulary; the Result is Ok(ids) or Err.
encode(v, l) ==
    IF \E i \in 1..Len(l) : l[i] \notin DOMAIN v
    THEN [ok |-> FALSE, ids |-> <<>>]
    ELSE [ok |-> TRUE, ids |-> [i \in 1..Len(l) |-> v[l[i]]]]

\* model.forward(slice): the cache takes in the tokens of the slice.
forward_cache(cache, slice) == cache \o slice

\* model.reset_kv_cache(): the cache is emptied.
reset_kv_cache(cache) == SubSeq(cache, 1, 0)

\* tokenizer.decode(&[t], true): the token string of id t, special tokens skipped
decode(v, t) ==
    LET names == {n \in DOMAIN v : v[n] = t}
    IN IF names = {} \/ EosName \in names THEN ""
       ELSE CHOOSE n \in names : TRUE

(***************************************************************************)
(* The computations of run()                                               *)
(***************************************************************************)
\* The panic, if any, raised on the encoding of a line.
prompt_panic_keeps_empty(enc) ==
    IF ~enc.ok THEN "tokens error" ELSE NoPanic

prompt_panic(enc) ==
    IF ~enc.ok THEN "tokens error"
    ELSE IF Len(enc.ids) = 0 THEN EmptyPromptMsg
    ELSE NoPanic

\* The panic, if any, raised on looking up the end marker.
eos_panic(v) ==
    IF EosName \in DOMAIN v THEN NoPanic ELSE "cannot find the endoftext token"

eos_token == vocab[EosName]

context_size_inverted(idx, toks) == IF idx > 0 THEN Len(toks) ELSE 1

context_size_always_full(idx, toks) == Len(toks)

context_size(idx, toks) == IF idx > 0 THEN 1 ELSE Len(toks)

ctxt(toks, idx) ==
    SliceFrom(toks, saturating_sub(Len(toks), context_size(idx, toks)))

start_at_one_more(toks, n) == saturating_sub(Len(toks), n + 1)

start_at(toks, n) == saturating_sub(Len(toks), n)

\* One logit scaled by the penalty p.
penalize(l, p) ==
    IF l >= 0 THEN (l * p.den) \div p.num ELSE (l * p.num) \div p.den

\* apply_repeat_penalty(&logits, penalty, context): the logit of every id of
\* the context is scaled, once per id.
RECURSIVE apply_from(_, _, _, _, _)
apply_from(lg, p, context, i, seen) ==
    IF i > Len(context) THEN lg
    ELSE LET t == context[i]
         IN IF t \in seen \/ t \notin DOMAIN lg
            THEN apply_from(lg, p, context, i + 1, seen)
            ELSE apply_from([lg EXCEPT ![t] = penalize(@, p)], p, context,
                            i + 1, seen \cup {t})

apply_repeat_penalty(lg, p, context) == apply_from(lg, p, context, 1, {})

\* The logits handed to the sampler, with the penalty 1.1 whatever is configured.
penalty_logits_default(lg, p, toks, n) ==
    apply_repeat_penalty(lg, [num |-> 11, den |-> 10], SliceFrom(toks, start_at(toks, n)))

\* The logits handed to the sampler.
penalty_logits(lg, p, toks, n) ==
    IF p.num = p.den THEN lg
    ELSE apply_repeat_penalty(lg, p, SliceFrom(toks, start_at(toks, n)))

loop_never_breaks(next_token, eos) == FALSE

loop_breaks(next_token, eos) == next_token = eos

\* The fragments after a step that sampled next_token.
result_push_always(res, v, next_token, eos) == Append(res, decode(v, next_token))

result_push(res, v, next_token, eos) ==
    IF next_token = eos THEN res ELSE Append(res, decode(v, next_token))

(***************************************************************************)
(* State machine                                                           *)
(***************************************************************************)
Init ==
    /\ pc = "read"
    /\ panic_msg = NoPanic
    /\ sample_len \in 0..MaxSampleLen
    /\ repeat_penalty \in RepeatPenalties
    /\ repeat_last_n \in 0..MaxRepeatLastN
    /\ vocab \in Vocabularies
    /\ logits_processor = 0
    /\ kv_cache = <<>>
    /\ reset_calls = 0
    /\ lines_read = 0
    /\ line = NoLine
    /\ prompt_ids = <<>>
    /\ tokens = <<>>
    /\ generated_tokens = 0
    /\ index = 0
    /\ input = <<>>
    /\ logits = NoLogits
    /\ sampler_logits = NoLogits
    /\ result = <<>>
    /\ stdout = <<>>
    /\ forward_calls = 0
    /\ submitted = <<>>

\* The next line of stdin is read, encoded and checked; the per-line locals are set up.
ReadLine ==
    /\ pc = "read"
    /\ lines_read < MaxPrompts
    /\ \E l \in Lines :
         LET enc == encode(vocab, l)
             msg == IF prompt_panic(enc) # NoPanic THEN prompt_panic(enc)
                    ELSE eos_panic(vocab)
         IN /\ line' = l
            /\ lines_read' = lines_read + 1
            /\ panic_msg' = msg
            /\ IF msg # NoPanic
               THEN /\ pc' = "panicked"
                    /\ UNCHANGED <<prompt_ids, tokens>>
               ELSE /\ pc' = "loop"
                    /\ prompt_ids' = enc.ids
                    /\ tokens' = enc.ids
    /\ generated_tokens' = 0
    /\ index' = 0
    /\ input' = <<>>
    /\ logits' = NoLogits
    /\ sampler_logits' = NoLogits
    /\ result' = <<>>
    /\ stdout' = <<>>
    /\ forward_calls' = 0
    /\ submitted' = <<>>
    /\ UNCHANGED <<sample_len, repeat_penalty, repeat_last_n, vocab,
                   logits_processor, kv_cache, reset_calls>>

\* One pass of the loop head: the context slice goes through model.forward.
Forward ==
    /\ pc = "loop"
    /\ index < sample_len
    /\ \E lg \in LogitChoices :
         /\ input' = ctxt(tokens, index)
         /\ kv_cache' = forward_cache(kv_cache, ctxt(tokens, index))
         /\ submitted' = submitted \o ctxt(tokens, index)
         /\ forward_calls' = forward_calls + 1
         /\ logits' = lg
         /\ pc' = "sample"
    /\ UNCHANGED <<panic_msg, sample_len, repeat_penalty, repeat_last_n, vocab,
                   logits_processor, reset_calls, lines_read, line, prompt_ids,
                   tokens, generated_tokens, index, sampler_logits, result, stdout>>

\* model.forward returns an error, which unwrap() turns into a panic.
ForwardFails ==
    /\ pc = "loop"
    /\ index < sample_len
    /\ input' = ctxt(tokens, index)
    /\ forward_calls' = forward_calls + 1
    /\ panic_msg' = "called Result::unwrap() on an Err value"
    /\ pc' = "panicked"
    /\ UNCHANGED <<sample_len, repeat_penalty, repeat_last_n, vocab,
                   logits_processor, kv_cache, reset_calls, lines_read, line,
                   prompt_ids, tokens, generated_tokens, index, logits,
                   sampler_logits, result, stdout, submitted>>

\* The rest of the loop body: penalty, sampling, push, end check, decoding.
Sample ==
    /\ pc = "sample"
    /\ LET lg == penalty_logits(logits, repeat_penalty, tokens, repeat_last_n)
       IN /\ sampler_logits' = lg
          /\ \E next_token \in DOMAIN lg :
               /\ tokens' = Append(tokens, next_token)
               /\ result' = result_push(result, vocab, next_token, eos_token)
               /\ IF loop_breaks(next_token, eos_token)
                  THEN /\ pc' = "report"
                       /\ index' = index
                  ELSE /\ pc' = "loop"
                       /\ index' = index + 1
    /\ logits_processor' = logits_processor + 1
    /\ generated_tokens' = generated_tokens + 1
    /\ UNCHANGED <<panic_msg, sample_len, repeat_penalty, repeat_last_n, vocab,
                   kv_cache, reset_calls, lines_read, line, prompt_ids, input,
                   logits, stdout, forward_calls, submitted>>

\* logits_processor.sample returns an error, which unwrap() turns into a panic.
SampleFails ==
    /\ pc = "sample"
    /\ sampler_logits' = penalty_logits(logits, repeat_penalty, tokens, repeat_last_n)
    /\ panic_msg' = "called Result::unwrap() on an Err value"
    /\ pc' = "panicked"
    /\ UNCHANGED <<sample_len, repeat_penalty, repeat_last_n, vocab,
                   logits_processor, kv_cache, reset_calls, lines_read, line,
                   prompt_ids, tokens, generated_tokens, index, input, logits,
                   result, stdout, forward_calls, submitted>>

\* The range 0..sample_len is exhausted.
ForExit ==
    /\ pc = "loop"
    /\ index >= sample_len
    /\ pc' = "report"
    /\ UNCHANGED <<panic_msg, sample_len, repeat_penalty, repeat_last_n, vocab,
                   logits_processor, kv_cache, reset_calls, lines_read, line,
                   prompt_ids, tokens, generated_tokens, index, input, logits,
                   sampler_logits, result, stdout, forward_calls, submitted>>

\* The count and the fragments are printed; run() goes back to reading.
Report ==
    /\ pc = "report"
    /\ stdout' = <<generated_tokens, result>>
    /\ pc' = "read"
    /\ UNCHANGED <<panic_msg, sample_len, repeat_penalty, repeat_last_n, vocab,
                   logits_processor, kv_cache, reset_calls, lines_read, line,
                   prompt_ids, tokens, generated_tokens, index, input, logits,
                   sampler_logits, result, forward_calls, submitted>>

\* stdin is at its end: the cache is reset and run() returns Ok.
EndOfStream ==
    /\ pc = "read"
    /\ kv_cache' = reset_kv_cache(kv_cache)
    /\ reset_calls' = reset_calls + 1
    /\ pc' = "done"
    /\ UNCHANGED <<panic_msg, sample_len, repeat_penalty, repeat_last_n, vocab,
                   logits_processor, lines_read, line, prompt_ids, tokens,
                   generated_tokens, index, input, logits, sampler_logits,
                   result, stdout, forward_calls, submitted>>

Next ==
    \/ ReadLine
    \/ Forward
    \/ ForwardFails
    \/ Sample
    \/ SampleFails
    \/ ForExit
    \/ Report
    \/ EndOfStream

Spec == Init /\ [][Next]_vars

(***************************************************************************)
(* Vocabulary of the properties                                            *)
(***************************************************************************)
Front(s) == SubSeq(s, 1, Len(s) - 1)

IsPrefix(a, b) == Len(a) <= Len(b) /\ SubSeq(b, 1, Len(a)) = a

\* A line is being decoded or has just been decoded.
InPrompt == pc \in {"loop", "sample", "report"}

\* The last loop pass of the current line ran to its end.
AfterSample == pc \in {"loop", "report"} /\ generated_tokens >= 1

\* The tokens sampled for the current line.
Sampled == SubSeq(tokens, Len(prompt_ids) + 1, Len(tokens))

NoEos(s) == \A i \in 1..Len(s) : s[i] # eos_token

\* The ids among the last n tokens of s.
Window(s, n) == {s[i] : i \in {j \in 1..Len(s) : j > Len(s) - n}}

\* The current line fails to encode or encodes to no token.
BadPrompt ==
    /\ line # NoLine
    /\ \/ \E i \in 1..Len(line) : line[i] \notin DOMAIN vocab
       \/ Len(line) = 0

(***************************************************************************)
(* Claims                                                                  *)
(***************************************************************************)

\* C1: the cache is reset exactly once after each line's decoding loop and
\* before the next line is accepted, never during a line's decoding steps: so
\* while the n-th line is decoded n - 1 resets have happened, and a session
\* that ended after k lines has made k resets.
C1_ResetOncePerPrompt ==
    /\ InPrompt => reset_calls = lines_read - 1
    /\ (pc = "done" /\ lines_read >= 1) => reset_calls = lines_read

\* C2: whenever model.forward is about to be called with step index 0, the
\* key-value cache holds no token of an earlier prompt.
C2_PrimingCacheClean ==
    (pc = "loop" /\ index = 0 /\ index < sample_len) => kv_cache = <<>>

\* C3: the slice handed to model.forward is the whole token sequence at step
\* index 0 and the single last token at every later step, and computing it
\* leaves the sequence as it was.
C3_ContextSlicing ==
    /\ [](pc = "sample" =>
            /\ Len(tokens) >= 1
            /\ IF index = 0 THEN input = tokens
               ELSE input = <<tokens[Len(tokens)]>>)
    /\ [][(pc = "loop" /\ pc' \in {"sample", "panicked"}) => tokens' = tokens]_vars

C3_Witness ==
    /\ pc = "sample"
    /\ index = 1
    /\ Len(tokens) = 3
    /\ input = <<tokens[3]>>

\* C4: the decoding loop of a line is left either at the first step that
\* sampled the end marker or after exactly sample_len steps none of which
\* sampled it; model.forward is called and a token is generated at most
\* sample_len times per line, and never when sample_len is 0.
C4_LoopTermination ==
    /\ forward_calls <= sample_len
    /\ generated_tokens <= sample_len
    /\ generated_tokens <= forward_calls
    /\ (sample_len = 0 => forward_calls = 0)
    /\ pc = "report" =>
         \/ /\ generated_tokens >= 1
            /\ generated_tokens = index + 1
            /\ tokens[Len(tokens)] = eos_token
            /\ NoEos(Front(Sampled))
         \/ /\ generated_tokens = sample_len
            /\ index = sample_len
            /\ NoEos(Sampled)

C4_Witness ==
    /\ pc = "report"
    /\ sample_len = 2
    /\ generated_tokens = 1
    /\ tokens[Len(tokens)] = eos_token

\* C5: a sampled end marker is appended and counted but never decoded; every
\* other sampled token is decoded and its fragment printed in generation
\* order, so a line that stopped on the end marker has generated_tokens - 1
\* fragments and any other line generated_tokens.
C5_EosNotEmitted ==
    /\ InPrompt =>
         LET kept == SelectSeq(Sampled, LAMBDA t : t # eos_token)
         IN /\ generated_tokens = Len(Sampled)
            /\ result = [i \in 1..Len(kept) |-> decode(vocab, kept[i])]
    /\ pc = "report" =>
         Len(result) = IF generated_tokens >= 1 /\ tokens[Len(tokens)] = eos_token
                       THEN generated_tokens - 1
                       ELSE generated_tokens
    /\ (pc = "read" /\ lines_read >= 1) => stdout = <<generated_tokens, result>>

C5_Witness ==
    /\ pc = "read"
    /\ lines_read >= 1
    /\ stdout = <<2, <<"b">> >>
    /\ tokens[Len(tokens)] = eos_token

\* C6 as claimed: a line that fails to encode or encodes to no token does not
\* end the session, and no forward call is made for it.
C6_BadPromptSkipped == BadPrompt => (pc # "panicked" /\ forward_calls = 0)

\* C6 as amended: a line that fails to encode or encodes to no token ends the
\* session with a panic: no forward call is made for it, and nothing happens
\* after the panic (no further line is read).
C6_BadPromptFatal ==
    /\ [](BadPrompt =>
            /\ pc = "panicked"
            /\ panic_msg \in {"tokens error", EmptyPromptMsg}
            /\ forward_calls = 0)
    /\ [][pc # "panicked"]_vars

C6_Witness ==
    /\ pc = "panicked"
    /\ line = <<>>
    /\ lines_read = 2
    /\ panic_msg = EmptyPromptMsg

\* C8: with a penalty other than 1.0, the logit of every id among the last
\* repeat_last_n tokens of the sequence is scaled once (divided by the
\* penalty if positive, multiplied if negative) and every other logit is
\* handed to the sampler as the model returned it.
C8_PenaltyWindow ==
    (AfterSample /\ repeat_penalty.num # repeat_penalty.den) =>
        /\ DOMAIN sampler_logits = DOMAIN logits
        /\ \A t \in DOMAIN logits :
             sampler_logits[t] =
                IF t \in Window(Front(tokens), repeat_last_n)
                THEN IF logits[t] > 0
                     THEN (logits[t] * repeat_penalty.den) \div repeat_penalty.num
                     ELSE (logits[t] * repeat_penalty.num) \div repeat_penalty.den
                ELSE logits[t]

C8_Witness ==
    /\ AfterSample
    /\ repeat_penalty = [num |-> 6, den |-> 5]
    /\ repeat_last_n = 2
    /\ Front(tokens) = <<0, 0>>
    /\ logits[0] = 60
    /\ sampler_logits[0] = 50

\* C9: with the penalty 1.0, the logits handed to the sampler are those the
\* model returned, whatever the sequence and repeat_last_n.
C9_NoPenaltyNoOp ==
    (AfterSample /\ repeat_penalty.num = repeat_penalty.den) =>
        sampler_logits = logits

C9_Witness ==
    /\ AfterSample
    /\ repeat_penalty.num = repeat_penalty.den
    /\ repeat_last_n > Len(Front(tokens))
    /\ generated_tokens = 1
    /\ sampler_logits = logits
    /\ logits[prompt_ids[1]] = 60

\* C10: within a line the token sequence only grows, by one token per step,
\* so its length is the prompt's plus generated_tokens; the slices handed to
\* model.forward, concatenated, are a prefix of the sequence, and after every
\* completed step they are the sequence without its last token.
C10_AppendOnly ==
    /\ [](InPrompt =>
            /\ Len(tokens) = Len(prompt_ids) + generated_tokens
            /\ SubSeq(tokens, 1, Len(prompt_ids)) = prompt_ids
            /\ IsPrefix(submitted, tokens)
            /\ (pc = "sample" => submitted = tokens)
            /\ (AfterSample => submitted = Front(tokens))
            /\ (generated_tokens = 0 /\ pc # "sample" => submitted = <<>>))
    /\ [][lines_read' = lines_read =>
            /\ IsPrefix(tokens, tokens')
            /\ Len(tokens') = Len(tokens) + (generated_tokens' - generated_tokens)
            /\ generated_tokens' - generated_tokens \in {0, 1}]_vars

C10_Witness ==
    /\ pc = "report"
    /\ Len(prompt_ids) = 2
    /\ generated_tokens = 2
    /\ submitted = Front(tokens)

====
